---- MODULE Spec2Model ----
(***************************************************************************)
(* Memory matching game engine (src/language/memory_game_engine.js).       *)
(*                                                                         *)
(* The MemoryGame singleton is modelled as a state machine: its fields,    *)
(* the cards of #game-board, the pending setTimeout callbacks and the      *)
(* fetches that init() is waiting for.  Every handler is one action.       *)
(* Math.random is a nondeterministic choice of the draws of shuffleArray.  *)
(***************************************************************************)
EXTENDS Integers, Sequences, FiniteSets

VARIABLES
    files,                \* what fetch(filePath) + response.json() yields, per path
    fetches,              \* init() calls suspended at "await fetch", per path
    gamePairs,            \* history: the pairs of the last load, where it is recorded
    currentFilePath,      \* MemoryGame.currentFilePath
    firstCard,            \* MemoryGame.firstCard  (0 = null, else index in cards)
    secondCard,           \* MemoryGame.secondCard (0 = null, else index in cards)
    lockBoard,            \* MemoryGame.lockBoard
    pairsFound,           \* MemoryGame.pairsFound
    totalPairs,           \* MemoryGame.totalPairs
    synonymPairs,         \* MemoryGame.synonymPairs (Undefined = key absent)
    unflipTimeoutId,      \* MemoryGame.unflipTimeoutId ("null" or "id")
    timers,               \* pending setTimeout callbacks
    cards,                \* children of #game-board: word, flipped, matched
    gameContainerDisplay, \* "absent" (not created), "none" or "block"
    topicAreaDisplay,     \* style.display of #topic-selection-area
    statusText,           \* textContent of #game-status
    uncaughtError,        \* a callback threw (TypeError on a null card)
    lastEvent,            \* history: the handler that ran last and its outcome (for a
                          \* click, arg is the number of playSuccessSound calls it made)
    input,                \* the array handed to shuffleArray, as it was before the call
    result,               \* the same array after the call
    randoms,              \* the indexes drawn by the call (<<>> before it)
    duration,             \* GameTimer.duration (0 = no timer constructed)
    timeLeft,             \* GameTimer.timeLeft
    intervalId,           \* GameTimer.intervalId ("null" or "id")
    isPaused,             \* GameTimer.isPaused
    isRunning,            \* GameTimer.isRunning
    completions,          \* history: onComplete calls since the constructor or the last reset
    count,                \* the count handed to pickRandom
    source,               \* the array handed to pickRandom, as the call leaves it
    state,                \* GameState.state: a function from keys to values
    initialState,         \* GameState.initialState
    history,              \* GameState.history: the snapshots, oldest first
    undoBase,             \* history: the state before the first set of the current run of sets
    setsInRow,            \* history: sets of the current run (maxHistory + 1 = more than maxHistory)
    undosInRow,           \* history: undos that followed the current run of sets
    score,                \* ScoreManager.score
    highScore,            \* ScoreManager.highScore
    storedHighScore       \* localStorage 'highScore' (Absent or the number saved)

vars == <<files, fetches, gamePairs, currentFilePath, firstCard,
          secondCard, lockBoard, pairsFound, totalPairs, synonymPairs,
          unflipTimeoutId, timers, cards, gameContainerDisplay,
          topicAreaDisplay, statusText, uncaughtError, lastEvent,
          input, result, randoms,
          duration, timeLeft, intervalId, isPaused, isRunning, completions,
          count, source, state, initialState, history, undoBase, setsInRow, undosInRow,
          score, highScore, storedHighScore>>

gameVars == <<files, fetches, gamePairs, currentFilePath, firstCard,
              secondCard, lockBoard, pairsFound, totalPairs, synonymPairs,
              unflipTimeoutId, timers, cards, gameContainerDisplay,
              topicAreaDisplay, statusText, uncaughtError>>
shuffleVars == <<input, result, randoms>>
timerVars == <<duration, timeLeft, intervalId, isPaused, isRunning, completions>>
stateVars == <<state, initialState, history, undoBase, setsInRow, undosInRow>>
scoreVars == <<score, highScore, storedHighScore>>
pickVars == <<count, source>>
libraryVars == <<shuffleVars, pickVars, timerVars, stateVars, scoreVars>>
exceptArrays == <<gameVars, timerVars, stateVars, scoreVars>>
exceptTimer == <<gameVars, shuffleVars, pickVars, stateVars, scoreVars>>
exceptState == <<gameVars, shuffleVars, pickVars, timerVars, scoreVars>>
exceptScore == <<gameVars, shuffleVars, pickVars, timerVars, stateVars>>

(***************************************************************************)
(* Bounds                                                                  *)
(***************************************************************************)
MaxTotalPairs == 2      \* totalPairs: the value in game play, the largest in data preparation
MaxEntries == 2         \* entries per dataset in the data-preparation runs
MaxAlt == 3             \* words per entry in the data-preparation runs
MaxFileWords == 5       \* words per dataset in the data-preparation runs
MaxFetches == 1         \* init() calls that may be in flight together
MaxBoardWords == 4      \* words per dataset in the board-building runs
MaxArrayLen == 3        \* length of the arrays in the shuffle runs
MaxOverlap == 2         \* init() calls in flight together in the overlapping-load runs
MaxDuration == 4        \* GameTimer.duration, in seconds
MaxCompletions == 2     \* countdowns completed between two resets of a GameTimer
MaxPoints == 2          \* points handed to addPoints and subtractPoints
MaxScore == 5           \* ScoreManager.score, kept within the runs by addPoints' guard
MaxStored == 2          \* the high score found in localStorage by the constructor
MaxCount == 4           \* the largest count handed to pickRandom

(***************************************************************************)
(* Words and datasets                                                      *)
(***************************************************************************)
WordSeq == <<"a", "b", "c", "d", "e", "f">>
Words == {WordSeq[i] : i \in 1..Len(WordSeq)}
DataWords == {"a", "b"}
Undefined == "undefined"

Min(x, y) == IF x <= y THEN x ELSE y

RECURSIVE SeqsUpTo(_, _)
SeqsUpTo(S, n) ==
    IF n = 0 THEN {<<>>}
    ELSE LET shorter == SeqsUpTo(S, n - 1)
         IN  shorter \cup {Append(s, x) : s \in {t \in shorter : Len(t) = n - 1}, x \in S}

\* an object with neither a pairs nor an entries field
UnknownShape == [shape |-> "unknown", items |-> <<>>]

RECURSIVE wordCount(_, _)
wordCount(items, k) ==
    IF k > Len(items) THEN 0 ELSE Len(items[k]) + wordCount(items, k + 1)

\* {pairs: [{term1, term2}, ...]}: every item is <<term1, term2>>
PairsDatasets ==
    {[shape |-> "pairs", items |-> it] :
        it \in {i \in SeqsUpTo({<<x, y>> : x \in DataWords, y \in DataWords}, MaxEntries) :
                   wordCount(i, 1) <= MaxFileWords}}

\* {entries: [{base, alternatives: [...]}, ...]}: every item is the alternatives list
EntriesDatasets ==
    {[shape |-> "entries", items |-> it] :
        it \in {i \in SeqsUpTo(SeqsUpTo(DataWords, MaxAlt), MaxEntries) :
                   wordCount(i, 1) <= MaxFileWords}}

DatasetSpace == PairsDatasets \cup EntriesDatasets \cup {UnknownShape}

\* the topics served to the game play runs: opposites with distinct words, a
\* synonym list with a shared word and entries too short for a pair, and a
\* file of neither shape
Paths == 1..3
Catalogue ==
    <<[shape |-> "pairs", items |-> <<<<"a", "b">>, <<"c", "d">>>>],
      [shape |-> "entries", items |-> <<<<"a", "b">>, <<"a", "c">>, <<"d">>, <<>>>>],
      UnknownShape>>

\* a topic of exactly MaxTotalPairs pairs whose words are pairwise distinct
FullDataset ==
    [shape |-> "pairs",
     items |-> [k \in 1..MaxTotalPairs |-> <<WordSeq[2 * k - 1], WordSeq[2 * k]>>]]

\* the datasets served to the board-building runs: the small ones of the
\* bounded space and the topics of the catalogue
BoardDatasets ==
    {d \in DatasetSpace : wordCount(d.items, 1) <= MaxBoardWords}
        \cup {Catalogue[p] : p \in Paths}

(***************************************************************************)
(* shuffleArray: Fisher-Yates, draws[i] is the index drawn for position i  *)
(* (1-based: for i from Len down to 2, j in 1..i).                         *)
(***************************************************************************)
RECURSIVE DrawSeqs(_)
DrawSeqs(n) ==
    IF n = 0 THEN {<<>>}
    ELSE {Append(d, j) : d \in DrawSeqs(n - 1), j \in 1..n}

\* mutant: position j keeps its element
swapOverwrite(array, i, j) == [array EXCEPT ![i] = array[j]]

\* [array[i], array[j]] = [array[j], array[i]]
swap(array, i, j) == [array EXCEPT ![i] = array[j], ![j] = array[i]]

\* mutant: the loop stops one position early
RECURSIVE shuffleLoopShort(_, _, _)
shuffleLoopShort(array, i, draws) ==
    IF i <= 2 THEN array
    ELSE shuffleLoopShort(swap(array, i, draws[i]), i - 1, draws)

\* for (let i = array.length - 1; i > 0; i--) { j = draws[i]; swap }
RECURSIVE shuffleLoop(_, _, _)
shuffleLoop(array, i, draws) ==
    IF i <= 1 THEN array
    ELSE shuffleLoop(swap(array, i, draws[i]), i - 1, draws)

shuffleArray(array, draws) == shuffleLoop(array, Len(array), draws)

\* the longest array the model shuffles: a board, an alternatives list, a file,
\* an array of the shuffle runs
Max(x, y) == IF x >= y THEN x ELSE y
MaxShuffleLen == Max(Max(2 * MaxTotalPairs, MaxAlt), Max(Max(MaxEntries, 4), MaxArrayLen))
DrawTable == [n \in 0..MaxShuffleLen |-> DrawSeqs(n)]

\* every array one call of shuffleArray can leave behind
ShuffleOutcomes(array) == {shuffleArray(array, d) : d \in DrawTable[Len(array)]}

(***************************************************************************)
(* prepareGameData                                                         *)
(***************************************************************************)
EmptyIndex == [w \in Words |-> Undefined]

\* this.synonymPairs[pair[0]] = pair[1]; this.synonymPairs[pair[1]] = pair[0];
storePair(index, pair) ==
    [[index EXCEPT ![pair[1]] = pair[2]] EXCEPT ![pair[2]] = pair[1]]

\* the values `pair` can take for one selected entry
pairOfEntry(entry) ==
    IF Len(entry) = 2 THEN {entry}
    ELSE IF Len(entry) > 2
         THEN {SubSeq(s, 1, 2) : s \in ShuffleOutcomes(entry)}
         ELSE {<<>>}

\* selectedEntries.forEach(...): the results of the loop from entry k on
RECURSIVE forEachEntry(_, _, _, _)
forEachEntry(selectedEntries, k, pairs, index) ==
    IF k > Len(selectedEntries)
    THEN {[gamePairs |-> pairs, synonymPairs |-> index]}
    ELSE UNION {IF Len(pair) = 2
                THEN forEachEntry(selectedEntries, k + 1, Append(pairs, pair),
                                  storePair(index, pair))
                ELSE forEachEntry(selectedEntries, k + 1, pairs, index)
                : pair \in pairOfEntry(selectedEntries[k])}

\* mutant: every entry is selected
selectEntriesAll(allEntries, n) == allEntries

\* allEntries.slice(0, Math.min(this.totalPairs, allEntries.length))
selectEntries(allEntries, n) == SubSeq(allEntries, 1, Min(n, Len(allEntries)))

\* mutant: a file of neither shape is given a pair of its own
prepareGameDataLenient(data, n, index) ==
    IF data.shape \notin {"pairs", "entries"}
    THEN {[gamePairs |-> <<<<"a", "b">>>>, synonymPairs |-> storePair(EmptyIndex, <<"a", "b">>)]}
    ELSE UNION {forEachEntry(selectEntries(allEntries, n), 1, <<>>, EmptyIndex)
                : allEntries \in ShuffleOutcomes(data.items)}

\* every (return value, synonymPairs) the call can produce for the data
prepareGameData(data, n, index) ==
    IF data.shape \notin {"pairs", "entries"}
    THEN {[gamePairs |-> <<>>, synonymPairs |-> index]}
    ELSE UNION {forEachEntry(selectEntries(allEntries, n), 1, <<>>, EmptyIndex)
                : allEntries \in ShuffleOutcomes(data.items)}

(***************************************************************************)
(* Cards, status line and timers                                           *)
(***************************************************************************)
\* mutant: the last word gets no card
renderCardsButLast(words) ==
    [i \in 1..(Len(words) - 1) |-> [word |-> words[i], flipped |-> FALSE, matched |-> FALSE]]

\* renderCards: one fresh card per word, in the order given
renderCards(words) ==
    [i \in 1..Len(words) |-> [word |-> words[i], flipped |-> FALSE, matched |-> FALSE]]

\* gameWords.push(pair[0], pair[1]) for every pair, from pair k on
RECURSIVE flattenPairs(_, _)
flattenPairs(pairs, k) ==
    IF k > Len(pairs) THEN <<>>
    ELSE <<pairs[k][1], pairs[k][2]>> \o flattenPairs(pairs, k + 1)

\* gamePairs.forEach(pair => { synonymPairs[pair[0]] = pair[1]; ... }), from pair k on
RECURSIVE repopulate(_, _, _)
repopulate(index, pairs, k) ==
    IF k > Len(pairs) THEN index
    ELSE repopulate(storePair(index, pairs[k]), pairs, k + 1)

\* mutants: the class list is left as it is
removeFlippedNothing(cs, card) == cs
addMatchedNothing(cs, card) == cs

\* mutant: the card is not turned face-up
addFlippedNothing(cs, card) == cs

\* card.classList.add('flipped') / remove('flipped') / add('matched')
addFlipped(cs, card) == [cs EXCEPT ![card].flipped = TRUE]
removeFlipped(cs, card) == [cs EXCEPT ![card].flipped = FALSE]
addMatched(cs, card) == [cs EXCEPT ![card].matched = TRUE]

\* updateStatus / showWinMessage: the text left in #game-status
foundText(n) == [text |-> "found", n |-> n]
winText == [text |-> "win", n |-> 0]
noText == [text |-> "none", n |-> 0]

(* A pending callback is [kind, tracked]: tracked says that its handle is   *)
(* the value of unflipTimeoutId, so that clearTimeout(unflipTimeoutId)      *)
(* removes it.  Callbacks of the same kind and tracking run the same code,  *)
(* so they are kept as a set.                                               *)
unflipTimer == [kind |-> "unflip", tracked |-> TRUE]
winTimer == [kind |-> "win", tracked |-> FALSE]

\* mutant: the flip-back is not scheduled
scheduleUnflipNever(ts) == ts

\* this.unflipTimeoutId = setTimeout(..., 1200): the older handle is overwritten
scheduleUnflip(ts) == {[t EXCEPT !.tracked = FALSE] : t \in ts} \cup {unflipTimer}

\* mutant: no announcement is scheduled
scheduleWinNever(ts) == ts

\* setTimeout(() => this.showWinMessage(), 800): the handle is not kept
scheduleWin(ts) == ts \cup {winTimer}

\* mutant: no handle is cleared
clearTimeoutsNone(ts, id) == ts

\* if (this.unflipTimeoutId) clearTimeout(this.unflipTimeoutId)
clearTimeouts(ts, id) == IF id # "null" THEN {t \in ts : ~t.tracked} ELSE ts

cancelledBy(ts, id) == Cardinality(ts) - Cardinality(clearTimeouts(ts, id))

(***************************************************************************)
(* Turn handling                                                           *)
(***************************************************************************)
\* mutant: a face-up card is not turned away
clickIgnoredFaceUp(card) == lockBoard \/ cards[card].matched

\* mutant: the lock is not consulted
clickIgnoredUnlocked(card) == cards[card].flipped \/ cards[card].matched

\* if (this.lockBoard || card is flipped || card is matched) return
clickIgnored(card) == lockBoard \/ cards[card].flipped \/ cards[card].matched

\* mutant: a word without an entry matches anything
isMatchLoose(index, word1, word2) == index[word1] = word2 \/ index[word1] = Undefined

\* const isMatch = this.synonymPairs[word1] === word2
isMatch(index, word1, word2) == index[word1] = word2

\* mutant: one pair short of the total already counts
isWinEarly(found, total) == found >= total - 1

\* this.pairsFound === this.totalPairs
isWin(found, total) == found = total

\* mutant: the board is left locked
resetTurnKeepsLock ==
    /\ firstCard' = 0
    /\ secondCard' = 0
    /\ lockBoard' = lockBoard

\* resetTurn
resetTurn ==
    /\ firstCard' = 0
    /\ secondCard' = 0
    /\ lockBoard' = FALSE

\* mutant: the feedback is given twice
playSuccessSoundTwice(played) == played + 2

\* this.playSuccessSound(): one more call of the success feedback; it catches
\* its own errors
playSuccessSound(played) == played + 1

\* handleMatch, entered with the second card just flipped
handleMatch(card) ==
    /\ cards' = addMatched(addMatched(addFlipped(cards, card), firstCard), card)
    /\ pairsFound' = pairsFound + 1
    /\ statusText' = foundText(pairsFound + 1)
    /\ timers' = IF isWin(pairsFound + 1, totalPairs) THEN scheduleWin(timers) ELSE timers
    /\ resetTurn
    /\ lastEvent' = [op |-> "match", arg |-> playSuccessSound(0)]
    /\ UNCHANGED unflipTimeoutId

\* mutant: the board is not locked for the delay
handleMismatchUnlocked(card) ==
    /\ cards' = addFlipped(cards, card)
    /\ secondCard' = card
    /\ lockBoard' = FALSE
    /\ timers' = scheduleUnflip(timers)
    /\ unflipTimeoutId' = "id"
    /\ lastEvent' = [op |-> "mismatch", arg |-> 0]
    /\ UNCHANGED <<firstCard, pairsFound, statusText>>

\* handleMismatch, entered with the second card just flipped
handleMismatch(card) ==
    /\ cards' = addFlipped(cards, card)
    /\ secondCard' = card
    /\ lockBoard' = TRUE
    /\ timers' = scheduleUnflip(timers)
    /\ unflipTimeoutId' = "id"
    /\ lastEvent' = [op |-> "mismatch", arg |-> 0]
    /\ UNCHANGED <<firstCard, pairsFound, statusText>>

\* mutant: the second card is recorded and the evaluation is left for later
checkForMatchDeferred(card) ==
    /\ cards' = addFlipped(cards, card)
    /\ secondCard' = card
    /\ lockBoard' = TRUE
    /\ lastEvent' = [op |-> "secondCard", arg |-> 0]
    /\ UNCHANGED <<firstCard, pairsFound, statusText, timers, unflipTimeoutId>>

\* checkForMatch, with this.secondCard = card
checkForMatch(card) ==
    IF isMatch(synonymPairs, cards[firstCard].word, cards[card].word)
    THEN handleMatch(card)
    ELSE handleMismatch(card)

\* mutant: the first card locks the board
setFirstCardLocking(card) ==
    /\ cards' = addFlipped(cards, card)
    /\ firstCard' = card
    /\ lockBoard' = TRUE
    /\ lastEvent' = [op |-> "firstCard", arg |-> 0]
    /\ UNCHANGED <<secondCard, pairsFound, statusText, timers, unflipTimeoutId>>

\* the card is flipped (397), and if (!this.firstCard) this.firstCard = card
setFirstCard(card) ==
    /\ cards' = addFlipped(cards, card)
    /\ firstCard' = card
    /\ lastEvent' = [op |-> "firstCard", arg |-> 0]
    /\ UNCHANGED <<secondCard, lockBoard, pairsFound, statusText, timers,
                   unflipTimeoutId>>

\* a click delivered to a card of the displayed board
handleCardClick(card) ==
    /\ gameContainerDisplay = "block"
    /\ card \in 1..Len(cards)
    /\ IF clickIgnored(card)
       THEN /\ lastEvent' = [op |-> "clickIgnored", arg |-> 0]
            /\ UNCHANGED <<cards, firstCard, secondCard, lockBoard, pairsFound,
                           statusText, timers, unflipTimeoutId>>
       ELSE IF firstCard = 0
       THEN setFirstCard(card)
       ELSE IF firstCard = card
       THEN /\ cards' = addFlipped(cards, card)
            /\ lastEvent' = [op |-> "sameCard", arg |-> 0]
            /\ UNCHANGED <<firstCard, secondCard, lockBoard, pairsFound, statusText,
                           timers, unflipTimeoutId>>
       ELSE checkForMatch(card)
    /\ UNCHANGED libraryVars
    /\ UNCHANGED <<files, fetches, gamePairs, currentFilePath, totalPairs,
                   synonymPairs, gameContainerDisplay, topicAreaDisplay, uncaughtError>>

\* the callback of handleMismatch, run 1200 ms later unless cancelled
unflipCallback ==
    \E t \in timers :
        /\ t.kind = "unflip"
        /\ timers' = timers \ {t}
        /\ IF firstCard = 0
           THEN /\ uncaughtError' = TRUE
                /\ lastEvent' = [op |-> "unflipThrew", arg |-> 0]
                /\ UNCHANGED <<cards, firstCard, secondCard, lockBoard>>
           ELSE IF secondCard = 0
           THEN /\ cards' = removeFlipped(cards, firstCard)
                /\ uncaughtError' = TRUE
                /\ lastEvent' = [op |-> "unflipThrew", arg |-> 0]
                /\ UNCHANGED <<firstCard, secondCard, lockBoard>>
           ELSE /\ cards' = removeFlipped(removeFlipped(cards, firstCard), secondCard)
                /\ resetTurn
                /\ lastEvent' = [op |-> "unflip", arg |-> 0]
                /\ UNCHANGED uncaughtError
        /\ UNCHANGED libraryVars
        /\ UNCHANGED <<files, fetches, gamePairs, currentFilePath, pairsFound,
                       totalPairs, synonymPairs, unflipTimeoutId, gameContainerDisplay,
                       topicAreaDisplay, statusText>>

\* the callback scheduled by handleMatch, run 800 ms later: showWinMessage
showWinMessage ==
    \E t \in timers :
        /\ t.kind = "win"
        /\ timers' = timers \ {t}
        /\ statusText' = IF gameContainerDisplay = "absent" THEN statusText ELSE winText
        /\ lastEvent' = [op |-> "showWinMessage", arg |-> 0]
        /\ UNCHANGED libraryVars
        /\ UNCHANGED <<files, fetches, gamePairs, currentFilePath, firstCard,
                       secondCard, lockBoard, pairsFound, totalPairs, synonymPairs,
                       unflipTimeoutId, cards, gameContainerDisplay, topicAreaDisplay,
                       uncaughtError>>

(***************************************************************************)
(* Lifecycle                                                               *)
(***************************************************************************)
\* mutant: the pending flip-back is left to run
resetGameStateNoClear(index) ==
    /\ timers' = timers
    /\ firstCard' = 0
    /\ secondCard' = 0
    /\ lockBoard' = FALSE
    /\ pairsFound' = 0
    /\ synonymPairs' = index
    /\ UNCHANGED unflipTimeoutId

\* mutant: the score is carried over
resetGameStateKeepsScore(index) ==
    /\ timers' = clearTimeouts(timers, unflipTimeoutId)
    /\ firstCard' = 0
    /\ secondCard' = 0
    /\ lockBoard' = FALSE
    /\ pairsFound' = pairsFound
    /\ synonymPairs' = index
    /\ UNCHANGED unflipTimeoutId

(* resetGameState.  index is the value of synonymPairs when the handler     *)
(* that called it returns: the object it creates at line 571, with          *)
(* whatever the caller stores into it afterwards.                           *)
resetGameState(index) ==
    /\ timers' = clearTimeouts(timers, unflipTimeoutId)
    /\ firstCard' = 0
    /\ secondCard' = 0
    /\ lockBoard' = FALSE
    /\ pairsFound' = 0
    /\ synonymPairs' = index
    /\ UNCHANGED unflipTimeoutId

\* setupGameBoard(pairs)
setupGameBoard(pairs) ==
    /\ topicAreaDisplay' = "none"
    /\ gameContainerDisplay' = "block"
    /\ resetGameState(repopulate(EmptyIndex, pairs, 1))
    /\ \E gameWords \in ShuffleOutcomes(flattenPairs(pairs, 1)) :
           cards' = renderCards(gameWords)
    /\ statusText' = foundText(0)
    /\ lastEvent' = [op |-> "setupGameBoard", arg |-> cancelledBy(timers, unflipTimeoutId)]

totalFetches == LET RECURSIVE sum(_)
                    sum(p) == IF p = 0 THEN 0 ELSE fetches[p] + sum(p - 1)
                IN  sum(Cardinality(Paths))

\* init(filePath) up to "await fetch(filePath)", while fewer than cap calls
\* are waiting
initCallUpTo(filePath, cap) ==
    /\ totalFetches < cap
    /\ currentFilePath' = filePath
    /\ fetches' = [fetches EXCEPT ![filePath] = @ + 1]
    /\ lastEvent' = [op |-> "init", arg |-> 0]
    /\ UNCHANGED libraryVars
    /\ UNCHANGED <<files, gamePairs, firstCard, secondCard, lockBoard,
                   pairsFound, totalPairs, synonymPairs, unflipTimeoutId, timers, cards,
                   gameContainerDisplay, topicAreaDisplay, statusText, uncaughtError>>

\* init(filePath) up to "await fetch(filePath)"
initCall(filePath) == initCallUpTo(filePath, MaxFetches)

\* a topic button of topic_list.js: startGame(filePath)
startGame(filePath) ==
    /\ topicAreaDisplay = ""
    /\ initCall(filePath)

\* the "new game" button: resetGame
resetGame ==
    /\ gameContainerDisplay = "block"
    /\ currentFilePath # 0
    /\ initCall(currentFilePath)

\* mutant: the length of the result is not looked at
noValidDataNever(pairs) == FALSE

\* gamePairs.length === 0
noValidData(pairs) == Len(pairs) = 0

\* what line 39 leaves in the local gamePairs and in synonymPairs; nothing is
\* prepared when the response is not ok
loaded(filePath, ok) ==
    IF ok THEN prepareGameData(files[filePath], totalPairs, synonymPairs)
    ELSE {[gamePairs |-> <<>>, synonymPairs |-> synonymPairs]}

\* init(filePath) from the completion of its fetch to its end, r being what
\* was loaded
initEnd(filePath, ok, r) ==
    /\ fetches' = [fetches EXCEPT ![filePath] = @ - 1]
    /\ IF ~ok
       THEN /\ lastEvent' = [op |-> "showError", arg |-> 1]
            /\ UNCHANGED <<firstCard, secondCard, lockBoard,
                           pairsFound, synonymPairs, timers, cards, gameContainerDisplay,
                           topicAreaDisplay, statusText>>
       ELSE IF noValidData(r.gamePairs)
       THEN /\ synonymPairs' = r.synonymPairs
            /\ lastEvent' = [op |-> "showError", arg |-> 2]
            /\ UNCHANGED <<firstCard, secondCard, lockBoard, pairsFound,
                           timers, cards, gameContainerDisplay,
                           topicAreaDisplay, statusText>>
       ELSE setupGameBoard(r.gamePairs)
    /\ UNCHANGED libraryVars
    /\ UNCHANGED <<files, currentFilePath, totalPairs, unflipTimeoutId, uncaughtError>>

\* init(filePath) from the completion of its fetch to its end; ok is response.ok
init(filePath, ok) ==
    /\ fetches[filePath] > 0
    /\ \E r \in loaded(filePath, ok) : initEnd(filePath, ok, r)
    /\ UNCHANGED gamePairs

\* the same handler, with the local gamePairs of line 39 kept for inspection
initRecorded(filePath, ok) ==
    /\ fetches[filePath] > 0
    /\ \E r \in loaded(filePath, ok) :
           /\ initEnd(filePath, ok, r)
           /\ gamePairs' = r.gamePairs

\* the "change topic" button: changeTopic
changeTopic ==
    /\ gameContainerDisplay = "block"
    /\ gameContainerDisplay' = "none"
    /\ topicAreaDisplay' = ""
    /\ resetGameState(EmptyIndex)
    /\ lastEvent' = [op |-> "changeTopic", arg |-> cancelledBy(timers, unflipTimeoutId)]
    /\ UNCHANGED libraryVars
    /\ UNCHANGED <<files, fetches, gamePairs, currentFilePath, totalPairs,
                   cards, statusText, uncaughtError>>

(***************************************************************************)
(* Specifications                                                          *)
(***************************************************************************)
\* the MemoryGame literal, before any topic is chosen
InitGame ==
    /\ fetches = [p \in Paths |-> 0]
    /\ gamePairs = <<>>
    /\ currentFilePath = 0
    /\ firstCard = 0
    /\ secondCard = 0
    /\ lockBoard = FALSE
    /\ pairsFound = 0
    /\ synonymPairs = EmptyIndex
    /\ unflipTimeoutId = "null"
    /\ timers = {}
    /\ cards = <<>>
    /\ gameContainerDisplay = "absent"
    /\ topicAreaDisplay = ""
    /\ statusText = noText
    /\ uncaughtError = FALSE
    /\ lastEvent = [op |-> "none", arg |-> 0]

\* no array is being shuffled on its own
NoShuffle ==
    /\ input = <<>>
    /\ result = <<>>
    /\ randoms = <<>>

\* no GameTimer has been constructed
NoTimer ==
    /\ duration = 0
    /\ timeLeft = 0
    /\ intervalId = "null"
    /\ isPaused = FALSE
    /\ isRunning = FALSE
    /\ completions = 0

\* localStorage.getItem returns null: nothing is saved under the key
Absent == -1

\* pickRandom is not being called
NoPick ==
    /\ count = 0
    /\ source = <<>>

\* no GameState has been constructed
NoState ==
    /\ state = <<>>
    /\ initialState = <<>>
    /\ history = <<>>
    /\ undoBase = <<>>
    /\ setsInRow = 0
    /\ undosInRow = 0

\* no ScoreManager has been constructed
NoScore ==
    /\ score = 0
    /\ highScore = 0
    /\ storedHighScore = Absent

\* the game runs without the components of the common library
NoLibrary ==
    /\ NoShuffle
    /\ NoPick
    /\ NoTimer
    /\ NoState
    /\ NoScore

\* game play over the catalogue of topics
Init ==
    /\ files = Catalogue
    /\ totalPairs = MaxTotalPairs
    /\ InitGame
    /\ NoLibrary

Next ==
    \/ \E filePath \in Paths : startGame(filePath)
    \/ \E filePath \in Paths, ok \in BOOLEAN : init(filePath, ok)
    \/ resetGame
    \/ changeTopic
    \/ \E card \in 1..Len(cards) : handleCardClick(card)
    \/ unflipCallback
    \/ showWinMessage

Spec == Init /\ [][Next]_vars

\* data preparation: prepareGameData called on any dataset of the bounded space
DataPath == 1

prepareGameDataCall ==
    /\ \E r \in prepareGameData(files[DataPath], totalPairs, synonymPairs) :
           /\ gamePairs' = r.gamePairs
           /\ synonymPairs' = r.synonymPairs
    /\ lastEvent' = [op |-> "prepareGameData", arg |-> 0]
    /\ UNCHANGED libraryVars
    /\ UNCHANGED <<files, fetches, currentFilePath, firstCard, secondCard, lockBoard,
                   pairsFound, totalPairs, unflipTimeoutId, timers, cards,
                   gameContainerDisplay, topicAreaDisplay, statusText, uncaughtError>>

InitData ==
    /\ files \in {[p \in Paths |-> d] : d \in DatasetSpace}
    /\ totalPairs \in 1..MaxTotalPairs
    /\ InitGame
    /\ NoLibrary

NextData == prepareGameDataCall

SpecData == InitData /\ [][NextData]_vars

\* loading and board building on any dataset of the bounded space
InitBoard ==
    /\ files \in {[p \in Paths |-> d] : d \in BoardDatasets}
    /\ totalPairs \in 1..MaxTotalPairs
    /\ InitGame
    /\ NoLibrary

NextBoard ==
    \/ startGame(DataPath)
    \/ resetGame
    \/ \E ok \in BOOLEAN : initRecorded(DataPath, ok)

SpecBoard == InitBoard /\ [][NextBoard]_vars

(* A full game on FullDataset: the topic is opened once and the player then *)
(* selects, pair after pair, a card and the card that carries the other     *)
(* word of its pair in the dataset; nothing resets the game meanwhile.      *)
partnerWords(data, word1, word2) ==
    \E k \in 1..Len(data.items) :
        /\ word1 # word2
        /\ {word1, word2} = {data.items[k][1], data.items[k][2]}

openTopic ==
    /\ gameContainerDisplay = "absent"
    /\ totalFetches = 0
    /\ startGame(DataPath)

selectFirst(card) ==
    /\ firstCard = 0
    /\ ~clickIgnored(card)
    /\ handleCardClick(card)

selectPartner(card) ==
    /\ firstCard # 0
    /\ card # firstCard
    /\ partnerWords(files[DataPath], cards[firstCard].word, cards[card].word)
    /\ handleCardClick(card)

InitWin ==
    /\ files = [p \in Paths |-> FullDataset]
    /\ totalPairs = MaxTotalPairs
    /\ InitGame
    /\ NoLibrary

NextWin ==
    \/ openTopic
    \/ \E ok \in BOOLEAN : init(DataPath, ok)
    \/ \E card \in 1..Len(cards) : selectFirst(card)
    \/ \E card \in 1..Len(cards) : selectPartner(card)
    \/ showWinMessage

\* the player goes on selecting, and a scheduled callback is run by the event
\* loop once its delay has passed
SpecWin ==
    /\ InitWin
    /\ [][NextWin]_vars
    /\ WF_vars(\E card \in 1..Len(cards) : selectFirst(card))
    /\ WF_vars(\E card \in 1..Len(cards) : selectPartner(card))
    /\ WF_vars(showWinMessage)

\* the whole game, with the event loop running a flip-back once its delay has
\* passed, unless clearTimeout removed it first
SpecTurn == Init /\ [][Next]_vars /\ WF_vars(unflipCallback)

(* Overlapping loads: the topic button and the "new game" button are       *)
(* clicked again while earlier loads of the topic are still waiting for    *)
(* their fetch; the loads complete in any order, with play in between.     *)
OverlapPath == 2

startGameAgain ==
    /\ topicAreaDisplay = ""
    /\ initCallUpTo(OverlapPath, MaxOverlap)

resetGameAgain ==
    /\ gameContainerDisplay = "block"
    /\ currentFilePath # 0
    /\ initCallUpTo(currentFilePath, MaxOverlap)

NextOverlap ==
    \/ startGameAgain
    \/ resetGameAgain
    \/ \E ok \in BOOLEAN : init(OverlapPath, ok)
    \/ \E card \in 1..Len(cards) : handleCardClick(card)
    \/ unflipCallback
    \/ showWinMessage
    \/ changeTopic

SpecOverlap == Init /\ [][NextOverlap]_vars

\* shuffleArray called on any array of the bounded space, as in
\* result = shuffleArray([...input])
shuffleArrayCall ==
    /\ \E d \in DrawTable[Len(input)] :
           /\ result' = shuffleArray(input, d)
           /\ randoms' = d
    /\ lastEvent' = [op |-> "shuffleArray", arg |-> 0]
    /\ UNCHANGED <<input, pickVars>>
    /\ UNCHANGED exceptArrays

InitShuffle ==
    /\ input \in SeqsUpTo(Words, MaxArrayLen)
    /\ result = input
    /\ randoms = <<>>
    /\ files = Catalogue
    /\ totalPairs = MaxTotalPairs
    /\ InitGame
    /\ NoPick
    /\ NoTimer
    /\ NoState
    /\ NoScore

NextShuffle == shuffleArrayCall

SpecShuffle == InitShuffle /\ [][NextShuffle]_vars

(***************************************************************************)
(* GameTimer in countdown mode.  The callbacks onTick, onWarning and        *)
(* onComplete are the caller's; completions counts the calls of onComplete. *)
(***************************************************************************)
\* new GameTimer({mode: 'countdown', duration: d})
GameTimer(d) ==
    /\ duration = d
    /\ timeLeft = d
    /\ intervalId = "null"
    /\ isPaused = FALSE
    /\ isRunning = FALSE
    /\ completions = 0

\* stop(): clearInterval, intervalId = null, isRunning = false
GameTimer_stopped ==
    /\ intervalId' = "null"
    /\ isRunning' = FALSE

\* start(); the runs go on while fewer than MaxCompletions countdowns have
\* completed since the last reset
GameTimer_start ==
    /\ completions < MaxCompletions
    /\ IF isRunning
       THEN UNCHANGED <<isRunning, intervalId>>
       ELSE /\ isRunning' = TRUE
            /\ intervalId' = "id"
    /\ lastEvent' = [op |-> "GameTimer.start", arg |-> 0]
    /\ UNCHANGED <<duration, timeLeft, isPaused, completions>>
    /\ UNCHANGED exceptTimer

\* tick() in countdown mode
GameTimer_tick ==
    /\ timeLeft' = timeLeft - 1
    /\ IF timeLeft - 1 <= 0
       THEN /\ GameTimer_stopped
            /\ completions' = completions + 1
       ELSE UNCHANGED <<intervalId, isRunning, completions>>

\* the setInterval callback, every 1000 ms while the interval is set
GameTimer_interval ==
    /\ intervalId = "id"
    /\ IF ~isPaused
       THEN GameTimer_tick
       ELSE UNCHANGED <<timeLeft, intervalId, isRunning, completions>>
    /\ lastEvent' = [op |-> "GameTimer.interval", arg |-> 0]
    /\ UNCHANGED <<duration, isPaused>>
    /\ UNCHANGED exceptTimer

GameTimer_stop ==
    /\ GameTimer_stopped
    /\ lastEvent' = [op |-> "GameTimer.stop", arg |-> 0]
    /\ UNCHANGED <<duration, timeLeft, isPaused, completions>>
    /\ UNCHANGED exceptTimer

GameTimer_pause ==
    /\ isPaused' = TRUE
    /\ lastEvent' = [op |-> "GameTimer.pause", arg |-> 0]
    /\ UNCHANGED <<duration, timeLeft, intervalId, isRunning, completions>>
    /\ UNCHANGED exceptTimer

GameTimer_resume ==
    /\ isPaused' = FALSE
    /\ lastEvent' = [op |-> "GameTimer.resume", arg |-> 0]
    /\ UNCHANGED <<duration, timeLeft, intervalId, isRunning, completions>>
    /\ UNCHANGED exceptTimer

GameTimer_reset ==
    /\ GameTimer_stopped
    /\ timeLeft' = duration
    /\ isPaused' = FALSE
    /\ completions' = 0
    /\ lastEvent' = [op |-> "GameTimer.reset", arg |-> 0]
    /\ UNCHANGED duration
    /\ UNCHANGED exceptTimer

InitTimer ==
    /\ \E d \in 1..MaxDuration : GameTimer(d)
    /\ files = Catalogue
    /\ totalPairs = MaxTotalPairs
    /\ InitGame
    /\ NoShuffle
    /\ NoPick
    /\ NoState
    /\ NoScore

NextTimer ==
    \/ GameTimer_start
    \/ GameTimer_interval
    \/ GameTimer_stop
    \/ GameTimer_pause
    \/ GameTimer_resume
    \/ GameTimer_reset

SpecTimer == InitTimer /\ [][NextTimer]_vars

(***************************************************************************)
(* GameState: a state object with a bounded undo history.  Listeners are   *)
(* the caller's and are not modelled.                                      *)
(***************************************************************************)
maxHistory == 10

Keys == {"score"}
StateValues == 0..1

\* the objects handed to set and update: any subset of the keys, with values
UpdateSpace == UNION {[D -> StateValues] : D \in SUBSET Keys}

\* { ...s, ...updates }
merge(s, updates) ==
    [k \in (DOMAIN s) \cup (DOMAIN updates) |->
        IF k \in DOMAIN updates THEN updates[k] ELSE s[k]]

\* mutant: a full history turns the new snapshot away
pushHistoryKeepOldest(h, s) ==
    IF Len(h) + 1 > maxHistory THEN h ELSE Append(h, s)

\* this.history.push({ ...this.state }); if (length > maxHistory) shift()
pushHistory(h, s) ==
    IF Len(h) + 1 > maxHistory THEN Tail(Append(h, s)) ELSE Append(h, s)

\* new GameState(initial)
GameState(initial) ==
    /\ state = initial
    /\ initialState = initial
    /\ history = <<>>
    /\ undoBase = initial
    /\ setsInRow = 0
    /\ undosInRow = 0

\* the body of set, with updates already an object
setUpdates(updates) ==
    /\ history' = pushHistory(history, state)
    /\ state' = merge(state, updates)
    /\ IF setsInRow = 0 \/ undosInRow > 0
       THEN /\ undoBase' = state
            /\ setsInRow' = 1
            /\ undosInRow' = 0
       ELSE /\ setsInRow' = Min(setsInRow + 1, maxHistory + 1)
            /\ UNCHANGED <<undoBase, undosInRow>>
    /\ UNCHANGED initialState
    /\ UNCHANGED exceptState

\* set(key, value) with a string key
GameState_set(key, value) ==
    /\ setUpdates([k \in {key} |-> value])
    /\ lastEvent' = [op |-> "GameState.set", arg |-> 0]

\* update(updates)
GameState_update(updates) ==
    /\ setUpdates(updates)
    /\ lastEvent' = [op |-> "GameState.update", arg |-> 0]

\* reset()
GameState_reset ==
    /\ state' = initialState
    /\ history' = <<>>
    /\ setsInRow' = 0
    /\ undosInRow' = 0
    /\ lastEvent' = [op |-> "GameState.reset", arg |-> 0]
    /\ UNCHANGED <<initialState, undoBase>>
    /\ UNCHANGED exceptState

\* undo()
GameState_undo ==
    /\ IF Len(history) > 0
       THEN /\ state' = history[Len(history)]
            /\ history' = SubSeq(history, 1, Len(history) - 1)
       ELSE UNCHANGED <<state, history>>
    /\ IF setsInRow > 0 /\ undosInRow < setsInRow
       THEN /\ undosInRow' = undosInRow + 1
            /\ UNCHANGED setsInRow
       ELSE /\ setsInRow' = 0
            /\ undosInRow' = 0
    /\ lastEvent' = [op |-> "GameState.undo", arg |-> 0]
    /\ UNCHANGED <<initialState, undoBase>>
    /\ UNCHANGED exceptState

InitState ==
    /\ \E initial \in [Keys -> StateValues] : GameState(initial)
    /\ files = Catalogue
    /\ totalPairs = MaxTotalPairs
    /\ InitGame
    /\ NoShuffle
    /\ NoPick
    /\ NoTimer
    /\ NoScore

NextState ==
    \/ \E key \in Keys, value \in StateValues : GameState_set(key, value)
    \/ \E updates \in UpdateSpace : GameState_update(updates)
    \/ GameState_undo
    \/ GameState_reset

SpecState == InitState /\ [][NextState]_vars

(***************************************************************************)
(* ScoreManager with the default initial score.  Listeners are the         *)
(* caller's and are not modelled.                                          *)
(***************************************************************************)
\* loadHighScore(): saved ? parseInt(saved, 10) : 0
loadHighScore(saved) == IF saved = Absent THEN 0 ELSE saved

\* mutant: the high score is left as it is
updateHighScoreNever(s, h) == h

\* updateHighScore(): if (this.score > this.highScore) this.highScore = this.score
updateHighScore(s, h) == IF s > h THEN s ELSE h

\* saveHighScore(): what localStorage holds afterwards; setItem may throw, and
\* the error is caught
saveHighScore(saved, h) == {saved, h}

\* new ScoreManager(), with saved in localStorage
ScoreManager(saved) ==
    /\ storedHighScore = saved
    /\ score = 0
    /\ highScore = loadHighScore(saved)

\* addPoints(points), while the score stays within MaxScore
ScoreManager_addPoints(points) ==
    /\ score + points <= MaxScore
    /\ score' = score + points
    /\ highScore' = updateHighScore(score + points, highScore)
    /\ IF score + points > highScore
       THEN storedHighScore' \in saveHighScore(storedHighScore, highScore')
       ELSE UNCHANGED storedHighScore
    /\ lastEvent' = [op |-> "ScoreManager.addPoints", arg |-> points]
    /\ UNCHANGED exceptScore

\* subtractPoints(points): Math.max(0, this.score - points)
ScoreManager_subtractPoints(points) ==
    /\ score' = Max(0, score - points)
    /\ lastEvent' = [op |-> "ScoreManager.subtractPoints", arg |-> points]
    /\ UNCHANGED <<highScore, storedHighScore>>
    /\ UNCHANGED exceptScore

\* reset()
ScoreManager_reset ==
    /\ score' = 0
    /\ lastEvent' = [op |-> "ScoreManager.reset", arg |-> 0]
    /\ UNCHANGED <<highScore, storedHighScore>>
    /\ UNCHANGED exceptScore

InitScore ==
    /\ \E saved \in {Absent} \cup (0..MaxStored) : ScoreManager(saved)
    /\ files = Catalogue
    /\ totalPairs = MaxTotalPairs
    /\ InitGame
    /\ NoShuffle
    /\ NoPick
    /\ NoTimer
    /\ NoState

NextScore ==
    \/ \E points \in 0..MaxPoints : ScoreManager_addPoints(points)
    \/ \E points \in 0..MaxPoints : ScoreManager_subtractPoints(points)
    \/ ScoreManager_reset

SpecScore == InitScore /\ [][NextScore]_vars

(***************************************************************************)
(* pickRandom(array, count).  A count is a number of JavaScript: a whole    *)
(* number, NaN, Infinity or -Infinity.                                     *)
(***************************************************************************)
number(n) == [kind |-> "number", n |-> n]
Counts ==
    {number(n) : n \in -1..MaxCount}
        \cup {[kind |-> k, n |-> 0] : k \in {"NaN", "Infinity", "-Infinity"}}

\* count <= 0
notPositive(c) == (c.kind = "number" /\ c.n <= 0) \/ c.kind = "-Infinity"

\* Number.isFinite(count)
isFinite(c) == c.kind = "number"

\* mutant: the whole array is returned
sliceAll(seq, n) == seq

\* seq.slice(0, n), n > 0
slice(seq, n) == SubSeq(seq, 1, Min(n, Len(seq)))

\* shuffleArrayCopy(array): the new array, and the argument as the call leaves it
shuffleArrayCopy(array, draws) ==
    [copy |-> shuffleArray(array, draws), array |-> array]

\* pickRandom(array, count): what it returns, and array as the call leaves it
pickRandom(array, c, draws) ==
    IF notPositive(c) \/ ~isFinite(c)
    THEN [picked |-> <<>>, array |-> array]
    ELSE LET shuffled == shuffleArrayCopy(array, draws)
         IN  [picked |-> slice(shuffled.copy, c.n), array |-> shuffled.array]

\* the indexes one call can draw: none when it returns at once
drawsOf(array, c) ==
    IF notPositive(c) \/ ~isFinite(c) THEN {<<>>} ELSE DrawTable[Len(array)]

\* result = pickRandom(source, count) on any array and count of the bounded space
pickRandomCall ==
    /\ \E d \in drawsOf(source, count) :
           LET r == pickRandom(source, count, d)
           IN  /\ result' = r.picked
               /\ source' = r.array
               /\ randoms' = d
    /\ lastEvent' = [op |-> "pickRandom", arg |-> 0]
    /\ UNCHANGED <<input, count>>
    /\ UNCHANGED exceptArrays

\* the elements of the arrays handed to pickRandom
PickWords == {"a", "b", "c", "d"}

InitPick ==
    /\ input \in SeqsUpTo(PickWords, MaxArrayLen)
    /\ source = input
    /\ count \in Counts
    /\ result = <<>>
    /\ randoms = <<>>
    /\ files = Catalogue
    /\ totalPairs = MaxTotalPairs
    /\ InitGame
    /\ NoTimer
    /\ NoState
    /\ NoScore

NextPick == pickRandomCall

SpecPick == InitPick /\ [][NextPick]_vars

TypeOK ==
    /\ firstCard \in 0..Len(cards)
    /\ secondCard \in 0..Len(cards)
    /\ lockBoard \in BOOLEAN
    /\ pairsFound \in Nat
    /\ unflipTimeoutId \in {"null", "id"}
    /\ gameContainerDisplay \in {"absent", "none", "block"}
    /\ topicAreaDisplay \in {"", "none"}

(***************************************************************************)
(* Properties of the turn state machine (specification Spec)               *)
(***************************************************************************)
unflipPending == \E t \in timers : t.kind = "unflip"
winPending == \E t \in timers : t.kind = "win"
afterReset == lastEvent.op \in {"setupGameBoard", "changeTopic"}
idle == firstCard = 0 /\ secondCard = 0 /\ ~lockBoard

\* C1: a click delivered while the board is locked, or on a flipped or matched
\* tile, leaves firstCard, secondCard, lockBoard, pairsFound, the match index
\* and every tile as they were.
C1_RejectedClickChangesNothing ==
    [][\A card \in 1..Len(cards) :
          (/\ handleCardClick(card)
           /\ (lockBoard \/ cards[card].flipped \/ cards[card].matched))
          => UNCHANGED <<firstCard, secondCard, lockBoard, pairsFound, synonymPairs,
                         cards>>]_vars

C1_Witness ==
    /\ lastEvent.op = "clickIgnored"
    /\ lockBoard
    /\ \E card \in 1..Len(cards) : ~cards[card].flipped

\* C2: the board is locked exactly when two tiles are selected; a second tile
\* is never selected without a first, and the two are never the same tile.
C2_LockedIffTwoSelected ==
    /\ lockBoard <=> (firstCard # 0 /\ secondCard # 0)
    /\ secondCard # 0 => firstCard # 0
    /\ (firstCard # 0 /\ secondCard # 0) => firstCard # secondCard

C2_Witness == lockBoard /\ firstCard # 0 /\ secondCard # 0 /\ unflipPending

\* C3: every callback that is pending when resetGameState runs is cancelled by
\* it, the win announcement included: no callback is pending when the handler
\* that reset the game returns.
C3_ResetCancelsEveryCallback == afterReset => timers = {}

\* C4: a flip-back that is pending when the game state is reset never runs:
\* none is pending after the reset, a pending one belongs to the two tiles
\* selected now, and no callback has thrown.
C4_ResetCancelsFlipBack ==
    /\ afterReset => ~unflipPending
    /\ unflipPending => (lockBoard /\ firstCard # 0 /\ secondCard # 0)
    /\ ~uncaughtError

C4_Witness == afterReset /\ lastEvent.arg = 1 /\ ~unflipPending

\* C5: for every key k of the match index, index[index[k]] = k.
C5_MatchIndexSymmetric ==
    \A k \in Words :
        synonymPairs[k] # Undefined => synonymPairs[synonymPairs[k]] = k

\* C6: for two distinct unmatched tiles X and Y, X then Y is a match exactly
\* when Y then X is a match.
C6_MatchOrderIndependent ==
    \A x, y \in 1..Len(cards) :
        (x # y /\ ~cards[x].matched /\ ~cards[y].matched)
        => (isMatch(synonymPairs, cards[x].word, cards[y].word)
            <=> isMatch(synonymPairs, cards[y].word, cards[x].word))

\* C7: when the second tile selected carries the partner of the first tile's
\* word, both tiles end matched and flipped, pairsFound grows by one, every
\* other tile is as before and the turn is Idle in the same step.
C7_MatchResolvesAtOnce ==
    [][\A card \in 1..Len(cards) :
          (/\ handleCardClick(card)
           /\ ~lockBoard /\ ~cards[card].flipped /\ ~cards[card].matched
           /\ firstCard # 0 /\ firstCard # card
           /\ synonymPairs[cards[firstCard].word] = cards[card].word)
          => (/\ cards'[firstCard].matched /\ cards'[firstCard].flipped
              /\ cards'[card].matched /\ cards'[card].flipped
              /\ \A o \in 1..Len(cards) : o \notin {firstCard, card} => cards'[o] = cards[o]
              /\ Len(cards') = Len(cards)
              /\ pairsFound' = pairsFound + 1
              /\ idle'
              /\ ~unflipPending')]_vars

C7_Witness ==
    /\ lastEvent.op = "match"
    /\ pairsFound = 1
    /\ idle
    /\ \E x, y \in 1..Len(cards) : x # y /\ cards[x].matched /\ cards[y].matched

\* C8: while a flip-back is pending the board is locked and both selected
\* tiles are face-up; when it fires both become unflipped, no tile is
\* selected, the board is unlocked, pairsFound and the other tiles are as before.
C8_LockedFaceUp ==
    unflipPending =>
        /\ lockBoard /\ firstCard # 0 /\ secondCard # 0
        /\ cards[firstCard].flipped /\ cards[secondCard].flipped

C8_MismatchFlipsBack ==
    [][/\ C8_LockedFaceUp
       /\ C8_LockedFaceUp'
       /\ unflipCallback =>
            /\ ~cards'[firstCard].flipped
            /\ ~cards'[secondCard].flipped
            /\ \A o \in 1..Len(cards) :
                  o \notin {firstCard, secondCard} => cards'[o] = cards[o]
            /\ Len(cards') = Len(cards)
            /\ idle'
            /\ pairsFound' = pairsFound]_vars

C8_Witness ==
    /\ lastEvent.op = "unflip"
    /\ idle
    /\ \A card \in 1..Len(cards) : ~cards[card].flipped

(***************************************************************************)
(* Properties of prepareGameData (specification SpecData)                  *)
(***************************************************************************)
prepared == lastEvent.op = "prepareGameData"

\* the entries of a dataset that can yield a pair: two words or more
RECURSIVE validEntryCount(_, _)
validEntryCount(data, k) ==
    IF k > Len(data.items) THEN 0
    ELSE (IF Len(data.items[k]) >= 2 THEN 1 ELSE 0) + validEntryCount(data, k + 1)

\* C9: prepareGameData returns exactly min(totalPairs, valid entries) pairs.
C9_ExactPairCount ==
    prepared => Len(gamePairs) = Min(totalPairs, validEntryCount(files[DataPath], 1))

\* C10: prepareGameData never returns more than min(totalPairs, valid
\* entries) pairs.
C10_PairCountBound ==
    prepared => Len(gamePairs) <= Min(totalPairs, validEntryCount(files[DataPath], 1))

C10_Witness ==
    /\ prepared
    /\ Len(gamePairs) = totalPairs
    /\ validEntryCount(files[DataPath], 1) > totalPairs

\* C11: every pair returned by prepareGameData has two distinct words and no
\* pair occurs twice in the result.
C11_PairsDistinctNoDuplicate ==
    prepared =>
        /\ \A k \in 1..Len(gamePairs) : gamePairs[k][1] # gamePairs[k][2]
        /\ \A k, l \in 1..Len(gamePairs) :
              k # l => {gamePairs[k][1], gamePairs[k][2]} # {gamePairs[l][1], gamePairs[l][2]}

(***************************************************************************)
(* Properties of loading (specification Spec)                              *)
(***************************************************************************)
knownShape(data) == data.shape \in {"pairs", "entries"}

\* C12: when the fetched dataset has neither a pairs nor an entries field, the
\* load ends in showError, setupGameBoard and renderCards are not run and no
\* card is created: the board, the two areas, the status line and the game
\* fields are as before.
C12_UnknownShapeFails ==
    [][\A filePath \in Paths :
          (~knownShape(files[filePath]) /\ init(filePath, TRUE))
          => (/\ lastEvent'.op = "showError"
              /\ UNCHANGED <<cards, gameContainerDisplay, topicAreaDisplay, statusText,
                             firstCard, secondCard, lockBoard, pairsFound, timers>>)]_vars

C12_Witness ==
    /\ lastEvent = [op |-> "showError", arg |-> 2]
    /\ totalFetches = 0
    /\ currentFilePath # 0
    /\ ~knownShape(files[currentFilePath])
    /\ cards = <<>>
    /\ gameContainerDisplay = "absent"

(***************************************************************************)
(* Properties of loading and board building (specification SpecBoard)      *)
(***************************************************************************)
\* a step of init(filePath) from the completion of its fetch, with response.ok
loadCompleted(filePath) ==
    /\ fetches'[filePath] < fetches[filePath]
    /\ lastEvent' # [op |-> "showError", arg |-> 1]

\* C13: when prepareGameData leaves no pair of a dataset of a known shape (an
\* empty list, or no usable entry among those selected), init ends in
\* showError and no board is built: the cards, the two areas, the status line
\* and the game fields are as before.
C13_NoPairsFails ==
    [][(/\ knownShape(files[DataPath])
        /\ loadCompleted(DataPath)
        /\ Len(gamePairs') = 0)
       => (/\ lastEvent'.op = "showError"
           /\ UNCHANGED <<cards, gameContainerDisplay, topicAreaDisplay, statusText,
                          firstCard, secondCard, lockBoard, pairsFound, timers>>)]_vars

C13_Witness ==
    /\ lastEvent = [op |-> "showError", arg |-> 2]
    /\ knownShape(files[DataPath])
    /\ Len(files[DataPath].items) > 0
    /\ validEntryCount(files[DataPath], 1) = 0
    /\ gamePairs = <<>>
    /\ cards = <<>>
    /\ gameContainerDisplay = "absent"

boardBuilt == lastEvent.op = "setupGameBoard"
occurrences(seq, w) == Cardinality({i \in 1..Len(seq) : seq[i] = w})
cardWords == [i \in 1..Len(cards) |-> cards[i].word]
fresh(card) == ~cards[card].flipped /\ ~cards[card].matched

\* C14: setupGameBoard leaves exactly two cards per pair, every card neither
\* flipped nor matched, and every word on as many cards as it has occurrences
\* in the flattened pairs.
C14_BoardFromPairs ==
    boardBuilt =>
        /\ Len(cards) = 2 * Len(gamePairs)
        /\ \A card \in 1..Len(cards) : fresh(card)
        /\ \A w \in Words :
              occurrences(cardWords, w) = occurrences(flattenPairs(gamePairs, 1), w)

C14_Witness ==
    /\ boardBuilt
    /\ Len(gamePairs) = 2
    /\ Len(cards) = 4
    /\ cardWords # flattenPairs(gamePairs, 1)
    /\ occurrences(cardWords, "a") = 3

(***************************************************************************)
(* Properties of shuffleArray (specification SpecShuffle)                  *)
(***************************************************************************)
shuffleDone == lastEvent.op = "shuffleArray"

\* C15: whatever the array and the draws, shuffleArray leaves an array of the
\* same length in which every value occurs as often as before; this covers
\* the empty array, arrays of one element and arrays with repeated values.
C15_ShuffleIsPermutation ==
    shuffleDone =>
        /\ Len(result) = Len(input)
        /\ \A w \in Words : occurrences(result, w) = occurrences(input, w)

C15_Witness ==
    /\ shuffleDone
    /\ Len(input) = 3
    /\ result # input
    /\ \E i, j \in 1..Len(input) : i # j /\ input[i] = input[j]

distinct(seq) == \A i, j \in 1..Len(seq) : i # j => seq[i] # seq[j]

\* every arrangement of the elements of seq
Permutations(seq) ==
    {[i \in 1..Len(seq) |-> seq[p[i]]] :
        p \in {q \in [1..Len(seq) -> 1..Len(seq)] : distinct(q)}}

\* C16: shuffleArray is Fisher-Yates: the index drawn for position i lies
\* between the first position and i, and on an array of distinct elements the
\* array left by the call is left by no other sequence of draws, while the
\* calls together leave every arrangement of the elements.
C16_FisherYatesBijection ==
    (shuffleDone /\ distinct(input)) =>
        /\ \A i \in 2..Len(input) : randoms[i] \in 1..i
        /\ \A d \in DrawTable[Len(input)] : shuffleArray(input, d) = result => d = randoms
        /\ ShuffleOutcomes(input) = Permutations(input)

C16_Witness ==
    /\ shuffleDone
    /\ distinct(input)
    /\ Len(input) = 3
    /\ result = <<input[3], input[1], input[2]>>

(***************************************************************************)
(* Properties of scoring (specification Spec)                              *)
(***************************************************************************)
matchStep == lastEvent'.op = "match" /\ pairsFound' = pairsFound + 1

\* C17: a match schedules the win announcement exactly when it brings
\* pairsFound to totalPairs: at totalPairs the callback is pending after the
\* match, at any other value the match schedules nothing; and the test that
\* decides it is true of no value but totalPairs, the larger ones included.
C17_WinExactlyAtTotal ==
    [][matchStep =>
          /\ pairsFound' = totalPairs => timers' = timers \cup {winTimer}
          /\ pairsFound' # totalPairs => timers' = timers
          /\ \A n \in 0..(2 * totalPairs) : isWin(n, totalPairs) <=> n = totalPairs]_vars

C17_Witness ==
    /\ lastEvent.op = "match"
    /\ pairsFound = totalPairs
    /\ winPending
    /\ idle

(***************************************************************************)
(* Properties of a full game (specification SpecWin)                       *)
(***************************************************************************)
fullBoard == boardBuilt /\ Len(cards) = 2 * totalPairs
winShown == statusText = winText

\* C18: on a board of exactly totalPairs pairs with pairwise distinct words,
\* when the player selects the two cards of each pair in turn and nothing
\* resets the game, no selection is a mismatch, and the board leads to
\* pairsFound = totalPairs with the win announcement shown.
C18_FullGameWins ==
    /\ [](lastEvent.op # "mismatch" /\ ~unflipPending)
    /\ fullBoard ~> (pairsFound = totalPairs /\ winShown)

C18_Witness ==
    /\ winShown
    /\ pairsFound = totalPairs
    /\ Len(cards) = 2 * totalPairs
    /\ \A card \in 1..Len(cards) : cards[card].matched
    /\ lastEvent.op = "showWinMessage"

(***************************************************************************)
(* Properties of a new game (specification SpecBoard)                      *)
(***************************************************************************)
\* C19: after setupGameBoard, pairsFound is 0, no card is selected, the board
\* is unlocked, every card is fresh, and the match index holds both
\* directions of every pair of the new board and nothing else.
C19_NewGameFresh ==
    boardBuilt =>
        /\ pairsFound = 0
        /\ idle
        /\ \A card \in 1..Len(cards) : fresh(card)
        /\ \A k \in 1..Len(gamePairs) :
              /\ synonymPairs[gamePairs[k][1]] = gamePairs[k][2]
              /\ synonymPairs[gamePairs[k][2]] = gamePairs[k][1]
        /\ \A w \in Words :
              synonymPairs[w] # Undefined =>
                  \E k \in 1..Len(gamePairs) :
                      \/ w = gamePairs[k][1] /\ synonymPairs[w] = gamePairs[k][2]
                      \/ w = gamePairs[k][2] /\ synonymPairs[w] = gamePairs[k][1]

(***************************************************************************)
(* Properties of matched cards (specification Spec)                        *)
(***************************************************************************)
\* C20: every matched card is flipped and is not one of the selected cards;
\* and a matched card is still there, matched and flipped, after every step
\* that does not replace the board, a flip-back included.
C20_MatchedStaysFaceUp ==
    /\ [](\A card \in 1..Len(cards) :
              cards[card].matched =>
                  /\ cards[card].flipped
                  /\ firstCard # card
                  /\ secondCard # card)
    /\ [][\A card \in 1..Len(cards) :
              (cards[card].matched /\ lastEvent'.op # "setupGameBoard")
              => (/\ card \in 1..Len(cards')
                  /\ cards'[card].matched
                  /\ cards'[card].flipped)]_vars

C20_Witness ==
    /\ lastEvent.op = "unflip"
    /\ pairsFound = 1
    /\ \E x, y \in 1..Len(cards) :
          /\ x # y
          /\ cards[x].matched /\ cards[x].flipped
          /\ cards[y].matched /\ cards[y].flipped
    /\ \E z \in 1..Len(cards) : ~cards[z].matched /\ ~cards[z].flipped

(***************************************************************************)
(* Properties of evaluations (specification Spec)                          *)
(***************************************************************************)
unflipTimers == {t \in timers : t.kind = "unflip"}
evaluationStep == lastEvent'.op \in {"match", "mismatch"} /\ vars' # vars

\* C21: at most one flip-back is pending at any time, and an evaluation
\* starts only on an unlocked board with no flip-back pending and no second
\* card selected.
C21_OneEvaluationInFlight ==
    /\ [](Cardinality(unflipTimers) <= 1)
    /\ [][evaluationStep =>
             (~lockBoard /\ ~unflipPending /\ firstCard # 0 /\ secondCard = 0)]_vars

C21_Witness ==
    /\ lastEvent.op = "clickIgnored"
    /\ lockBoard
    /\ Cardinality(unflipTimers) = 1
    /\ pairsFound = 1

\* C22: when the word of the first selected card has no entry in the match
\* index, selecting a second card is a mismatch: both cards are face-up and
\* unmatched, the board is locked with a flip-back pending, pairsFound is as
\* before and nothing has thrown; and a click on any card of the displayed
\* board is handled in every reachable state.
C22_AbsentWordIsMismatch ==
    /\ [](gameContainerDisplay = "block" =>
              \A card \in 1..Len(cards) : ENABLED handleCardClick(card))
    /\ [][\A card \in 1..Len(cards) :
              (/\ firstCard # 0 /\ firstCard # card
               /\ ~clickIgnored(card)
               /\ synonymPairs[cards[firstCard].word] = Undefined
               /\ handleCardClick(card))
              => (/\ lastEvent'.op = "mismatch"
                  /\ pairsFound' = pairsFound
                  /\ cards'[firstCard].flipped /\ ~cards'[firstCard].matched
                  /\ cards'[card].flipped /\ ~cards'[card].matched
                  /\ lockBoard' /\ unflipPending'
                  /\ ~uncaughtError')]_vars

C22_Witness ==
    /\ lastEvent.op = "mismatch"
    /\ firstCard # 0
    /\ synonymPairs[cards[firstCard].word] = Undefined
    /\ lockBoard /\ unflipPending

\* C23: a click that makes a match calls playSuccessSound exactly once; a
\* click that is rejected, selects a first card or makes a mismatch does not
\* call it.
C23_SoundOncePerMatch ==
    [][\A card \in 1..Len(cards) :
          handleCardClick(card)
          => /\ lastEvent'.arg = (IF pairsFound' = pairsFound + 1 THEN 1 ELSE 0)
             /\ lastEvent'.op = "match" <=> pairsFound' = pairsFound + 1]_vars

C23_Witness ==
    /\ lastEvent = [op |-> "match", arg |-> 1]
    /\ pairsFound >= 1
    /\ ~lockBoard

\* C24: no callback throws, and whenever the flip-back callback runs both
\* selected cards are set, distinct, flipped and unmatched, whatever clicks,
\* loads, new games and topic changes came before.
C24_FlipBackFindsItsCards ==
    /\ [](~uncaughtError)
    /\ [][unflipCallback =>
             (/\ firstCard # 0 /\ secondCard # 0 /\ firstCard # secondCard
              /\ cards[firstCard].flipped /\ ~cards[firstCard].matched
              /\ cards[secondCard].flipped /\ ~cards[secondCard].matched
              /\ lastEvent'.op = "unflip")]_vars

C24_Witness ==
    /\ lastEvent.op = "unflip"
    /\ ~uncaughtError
    /\ totalFetches = 1
    /\ unflipTimeoutId = "id"

(***************************************************************************)
(* Properties of the score (specification Spec)                            *)
(***************************************************************************)
matchedCards == {card \in 1..Len(cards) : cards[card].matched}

allMatched ==
    /\ gameContainerDisplay = "block"
    /\ Len(cards) > 0
    /\ \A card \in 1..Len(cards) : cards[card].matched

\* C26: when every card of the board is matched the win announcement is
\* shown or on its way (its callback is pending), also on a board of fewer
\* pairs than totalPairs; nothing but a match schedules it, so a state
\* without either never gets it.
C26_AllMatchedWins == allMatched => (winPending \/ winShown)

(***************************************************************************)
(* Properties of loads during a game (specification Spec)                  *)
(***************************************************************************)
\* a step in which an init ends in showError
failedInit ==
    /\ lastEvent'.op = "showError"
    /\ \E filePath \in Paths : fetches'[filePath] < fetches[filePath]

\* C27: an init that fails (fetch failure, unknown shape or no valid pair)
\* leaves firstCard, secondCard, lockBoard, pairsFound, the match index and
\* every card as they were.
C27_FailedInitChangesNothing ==
    [][failedInit =>
          UNCHANGED <<firstCard, secondCard, lockBoard, pairsFound, synonymPairs,
                      cards>>]_vars

\* C28: after changeTopic the game container stays hidden and the topic area
\* stays visible until a topic is selected again: while changeTopic is the
\* last thing that happened, no step (the completion of an init started
\* before it included) shows the board or hides the topic area.
C28_TopicChangeStays ==
    [][lastEvent.op = "changeTopic" =>
          (gameContainerDisplay' = "none" /\ topicAreaDisplay' = "")]_vars

\* every word on a card has an entry whose value is on another card, and every
\* entry belongs to two cards of the board
indexMatchesCards ==
    /\ \A x \in 1..Len(cards) :
          \E y \in 1..Len(cards) :
              x # y /\ synonymPairs[cards[x].word] = cards[y].word
    /\ \A w \in Words :
          synonymPairs[w] # Undefined =>
              \E x, y \in 1..Len(cards) :
                  x # y /\ cards[x].word = w /\ cards[y].word = synonymPairs[w]

\* every init call has come back, the last of them just now, and a board is
\* on display
overlapCompleted ==
    /\ totalFetches = 0
    /\ lastEvent.op \in {"setupGameBoard", "showError"}
    /\ gameContainerDisplay = "block"

\* C29: when overlapping init calls have all completed, the match index
\* corresponds to the cards rendered last, the turn is Idle with pairsFound = 0
\* and every card is face down and unmatched.
C29_OverlapEndsFresh ==
    overlapCompleted =>
        /\ indexMatchesCards
        /\ idle
        /\ pairsFound = 0
        /\ \A card \in 1..Len(cards) : fresh(card)

\* C30: every evaluation ends: from any state in which the board is locked,
\* the board is eventually unlocked with no card selected, whether the
\* flip-back runs or a new game or a topic change cancels it.
C30_EvaluationEnds == lockBoard ~> idle

C30_Witness ==
    /\ lockBoard
    /\ unflipPending
    /\ lastEvent.op = "init"
    /\ totalFetches = 1

\* C31: in the Idle state an accepted click on a card flips that card and no
\* other, makes it the only selected card, leaves the board unlocked and
\* pairsFound as it was, and schedules no callback.
C31_IdleClickSelectsFirst ==
    [][\A card \in 1..Len(cards) :
          (/\ idle
           /\ ~cards[card].flipped /\ ~cards[card].matched
           /\ handleCardClick(card))
          => (/\ cards' = [cards EXCEPT ![card].flipped = TRUE]
              /\ firstCard' = card
              /\ secondCard' = 0
              /\ ~lockBoard'
              /\ pairsFound' = pairsFound
              /\ timers' = timers
              /\ unflipTimeoutId' = unflipTimeoutId)]_vars

C31_Witness ==
    /\ lastEvent.op = "firstCard"
    /\ firstCard # 0 /\ cards[firstCard].flipped
    /\ secondCard = 0 /\ ~lockBoard
    /\ timers = {}

\* C32: with one card selected, an accepted click on another card flips it
\* and evaluates the pair in the same step: when the handler returns the pair
\* is either matched, with the turn reset, or recorded as first and second
\* card on a locked board with the flip-back scheduled.
C32_SecondClickEvaluates ==
    [][\A card \in 1..Len(cards) :
          (/\ firstCard # 0 /\ secondCard = 0 /\ ~lockBoard
           /\ card # firstCard
           /\ ~cards[card].flipped /\ ~cards[card].matched
           /\ handleCardClick(card))
          => (/\ cards'[card].flipped
              /\ IF synonymPairs[cards[firstCard].word] = cards[card].word
                 THEN /\ lastEvent'.op = "match"
                      /\ cards'[card].matched /\ cards'[firstCard].matched
                      /\ firstCard' = 0 /\ secondCard' = 0 /\ ~lockBoard'
                 ELSE /\ lastEvent'.op = "mismatch"
                      /\ firstCard' = firstCard /\ secondCard' = card
                      /\ lockBoard'
                      /\ Cardinality(unflipTimers') = 1
                      /\ pairsFound' = pairsFound)]_vars

C32_Witness ==
    /\ lastEvent.op = "mismatch"
    /\ lockBoard
    /\ firstCard # 0 /\ secondCard # 0
    /\ cards[secondCard].flipped
    /\ synonymPairs[cards[firstCard].word] # Undefined

\* C33: the same-card rejection of handleCardClick is never reached: in every
\* reachable state the selected first card is a card of the board and is
\* flipped, so a click on it is turned away by the guard, and no click has
\* ended in the firstCard === card branch.
C33_SameCardUnreachable ==
    /\ firstCard # 0 => (firstCard \in 1..Len(cards) /\ cards[firstCard].flipped)
    /\ lastEvent.op # "sameCard"

C33_Witness ==
    /\ lastEvent.op = "clickIgnored"
    /\ ~lockBoard
    /\ firstCard # 0
    /\ \A card \in 1..Len(cards) :
          (cards[card].flipped \/ cards[card].matched) => card = firstCard

(***************************************************************************)
(* Properties of the common library                                        *)
(***************************************************************************)
\* C34: for a GameTimer in countdown mode, under any sequence of start, stop,
\* pause, resume, reset and interval ticks, timeLeft is never below 0 and
\* onComplete is called at most once between two resets.
C34_CountdownStopsAtZero ==
    /\ timeLeft >= 0
    /\ completions <= 1

\* C35: the history of a GameState never holds more than maxHistory
\* snapshots, and n <= maxHistory calls of set or update followed by n calls
\* of undo leave the state that held before the first of those calls.
C35_UndoRestores ==
    /\ Len(history) <= maxHistory
    /\ (setsInRow >= 1 /\ setsInRow <= maxHistory /\ undosInRow = setsInRow)
           => state = undoBase

C35_Witness ==
    /\ lastEvent.op = "GameState.undo"
    /\ setsInRow = maxHistory
    /\ undosInRow = maxHistory
    /\ state = undoBase
    /\ state # initialState

\* C36: for a ScoreManager built with the default initial score over a
\* non-negative stored high score, under addPoints, subtractPoints (points
\* not negative) and reset the score is never negative, highScore is at least
\* the score, and highScore never decreases.
C36_HighScoreDominates ==
    /\ [](score >= 0 /\ highScore >= score)
    /\ [][highScore' >= highScore]_vars

C36_Witness ==
    /\ lastEvent.op = "ScoreManager.subtractPoints"
    /\ score > 0
    /\ score < highScore
    /\ highScore > loadHighScore(storedHighScore)

picked == lastEvent.op = "pickRandom"

\* C37: pickRandom(array, count) returns min(count, array.length) elements
\* taken from distinct positions of the array (no element more often than the
\* array holds it), returns the empty array when count <= 0 or count is not
\* finite, and leaves the array as it was.
C37_PickRandomPicks ==
    picked =>
        /\ IF notPositive(count) \/ ~isFinite(count)
           THEN result = <<>>
           ELSE Len(result) = Min(count.n, Len(input))
        /\ \A w \in Words : occurrences(result, w) <= occurrences(input, w)
        /\ distinct(input) => distinct(result)
        /\ source = input

C37_Witness ==
    /\ picked
    /\ Len(input) = MaxArrayLen
    /\ distinct(input)
    /\ count = number(2)
    /\ Len(result) = 2
    /\ result # SubSeq(input, 1, 2)

====
